---- MODULE Spec2Model ----
(***************************************************************************)
(* A model of ilostat.py: the table-of-contents reader (get_ilostat_toc),  *)
(* the cache manager (get_ilostat_dat), the raw dataset fetcher            *)
(* (get_ilostat_raw), the positional column filters and the labeler        *)
(* (label_ilostat).  Text is modelled by TLA+ strings, a pandas DataFrame  *)
(* by a record [ncol, numeric, rows], the cache directory by a function    *)
(* from file names to file contents, and a Python exception by the "exc"   *)
(* field of a call's outcome.                                              *)
(***************************************************************************)
EXTENDS Integers, Sequences, FiniteSets, TLC

VARIABLES toc, files, last, tocOut, lab

vars == <<toc, files, last, tocOut, lab>>

(***************************************************************************)
(* Bounds of the model.                                                    *)
(***************************************************************************)
MaxRows == 2
MaxFilterLen == 2
MaxVecLen == 3

(***************************************************************************)
(* Text.                                                                   *)
(***************************************************************************)
Min(a, b) == IF a < b THEN a ELSE b

Ch(s, i) == SubSeq(s, i, i)

\* t occurs in s as a contiguous substring (Python's "t in s").
Contains(s, t) ==
  \E i \in 0..(Len(s) - Len(t)) : SubSeq(s, i + 1, i + Len(t)) = t

\* Python's sep.join(items), items a sequence of strings.
RECURSIVE Join(_, _)
Join(sep, items) ==
  IF Len(items) = 0 THEN ""
  ELSE IF Len(items) = 1 THEN items[1]
  ELSE items[1] \o sep \o Join(sep, Tail(items))

\* Python's s.split(sep) for a one-character sep: never an empty list.
RECURSIVE SplitFrom(_, _, _, _)
SplitFrom(s, sep, i, cur) ==
  IF i > Len(s) THEN <<cur>>
  ELSE IF Ch(s, i) = sep THEN <<cur>> \o SplitFrom(s, sep, i + 1, "")
  ELSE SplitFrom(s, sep, i + 1, cur \o Ch(s, i))

Split(s, sep) == SplitFrom(s, sep, 1, "")

\* Python's s.replace(old, new): every non-overlapping occurrence, left to right.
RECURSIVE ReplaceFrom(_, _, _, _)
ReplaceFrom(s, old, new, i) ==
  IF i > Len(s) THEN ""
  ELSE IF Len(old) > 0 /\ i + Len(old) - 1 <= Len(s)
          /\ SubSeq(s, i, i + Len(old) - 1) = old
       THEN new \o ReplaceFrom(s, old, new, i + Len(old))
  ELSE Ch(s, i) \o ReplaceFrom(s, old, new, i + 1)

Replace(s, old, new) == ReplaceFrom(s, old, new, 1)

\* The characters of a string, as Python iterates a str.
CharsOf(s) == [i \in 1..Len(s) |-> Ch(s, i)]

(***************************************************************************)
(* pandas' Series.str.contains(pat): a regular-expression search.  The     *)
(* model covers the patterns made of literal characters, "." (any          *)
(* character) and "|" (alternation).                                       *)
(***************************************************************************)
AltMatchesAt(alt, value, i) ==
  \A j \in 1..Len(alt) : Ch(alt, j) = "." \/ Ch(alt, j) = Ch(value, i + j)

AnyAltMatches(alts, value) ==
  \E k \in 1..Len(alts) :
     \E i \in 0..(Len(value) - Len(alts[k])) : AltMatchesAt(alts[k], value, i)

RegexSearch(pat, value) == AnyAltMatches(Split(pat, "|"), value)

\* The positions of the rows whose cell of column index matches pat.
MatchingRows(rows, index, alts) ==
  {i \in 1..Len(rows) : AnyAltMatches(alts, rows[i][index])}

str_contains(rows, index, pat) == MatchingRows(rows, index, Split(pat, "|"))

(***************************************************************************)
(* Tables.  A DataFrame is [ncol, numeric, rows]: its number of columns,   *)
(* the positions (from 1) of its columns of a numeric dtype, and its rows, *)
(* each a tuple of ncol cells.  pandas.DataFrame() has no column, no row.  *)
(***************************************************************************)
EmptyFrame == [ncol |-> 0, numeric |-> {}, rows |-> <<>>]

\* Boolean indexing, dat[mask]: the rows at the positions of keep, in order.
SelectRows(rows, keep) ==
  LET F[i \in 0..Len(rows)] ==
        IF i = 0 THEN <<>>
        ELSE IF i \in keep THEN Append(F[i - 1], rows[i]) ELSE F[i - 1]
  IN  F[Len(rows)]

(***************************************************************************)
(* A filter slot or a search argument is a Python list of strings or a     *)
(* Python str: [kind |-> "list", val |-> <<...>>] or [kind |-> "str",      *)
(* val |-> "..."].  Both are falsy when empty, and '|'.join iterates them: *)
(* the items of a list, the characters of a str.                           *)
(***************************************************************************)
L(items) == [kind |-> "list", val |-> items]
S(str)   == [kind |-> "str", val |-> str]

Truthy(a) == Len(a.val) > 0

Items(a) == IF a.kind = "str" THEN CharsOf(a.val) ELSE a.val

test_item(test_filter) == Join("|", Items(test_filter))

\* The handlers of the filter loops: "except OSError: pass".
FilterCatches(exc) == exc = "OSError"

\* dat.iloc[:, index].str.contains(test_item) and the boolean selection.
\* The .str accessor of a column of a numeric dtype raises AttributeError.
RECURSIVE FilterLoop(_, _, _, _)
FilterLoop(tab, filters, index, test_cols) ==
  IF index > test_cols THEN [tab |-> tab, exc |-> "none"]
  ELSE IF ~Truthy(filters[index])
       THEN FilterLoop(tab, filters, index + 1, test_cols)
  ELSE IF index \in tab.numeric
       THEN [tab |-> tab, exc |-> "AttributeError"]
  ELSE FilterLoop([tab EXCEPT !.rows = SelectRows(tab.rows,
                        str_contains(tab.rows, index, test_item(filters[index])))],
                  filters, index + 1, test_cols)

\* "if filters: test_cols = min(...); try: for index ...: except OSError: pass".
FilterHandler(r) ==
  IF FilterCatches(r.exc) THEN [tab |-> r.tab, exc |-> "none"] ELSE r

ApplyFilters(tab, filters) ==
  IF Len(filters) = 0 THEN [tab |-> tab, exc |-> "none"]
  ELSE FilterHandler(FilterLoop(tab, filters, 1, Min(tab.ncol, Len(filters))))

(***************************************************************************)
(* The table of contents: 14 columns, n.records (the 10th) an int64.       *)
(***************************************************************************)
TocNcol == 14
TocNumeric == {10}
IdCol == 1
LastUpdateCol == 9

\* toc.iloc[:, [1,2,3,4,10,11,12,13]] (positions from 0), joined with ''.
TitleCols == <<2, 3, 4, 5, 11, 12, 13, 14>>

titles(row) == Join("", [k \in 1..Len(TitleCols) |-> row[TitleCols[k]]])

\* toc[toc['titles'].str.contains(newsearch)]
SearchRows(rows, alts) ==
  SelectRows(rows, {i \in 1..Len(rows) : AnyAltMatches(alts, titles(rows[i]))})

newsearch(search) ==
  IF search.kind = "list" THEN Join(" and ", search.val) ELSE search.val

TocFrame(rows) == [ncol |-> TocNcol, numeric |-> TocNumeric, rows |-> rows]

\* get_ilostat_toc(segment, lang, search, filters) on the remote rows.
get_ilostat_toc(rows, search, filters) ==
  ApplyFilters(TocFrame(IF Truthy(search)
                        THEN SearchRows(rows, Split(newsearch(search), "|"))
                        ELSE rows),
               filters)

(***************************************************************************)
(* The remote service's answer to a dataset download: a dataset table, a   *)
(* missing file ("notfound") or a file that cannot be parsed ("malformed").*)
(* A file of the cache directory holds the bytes that were downloaded.     *)
(***************************************************************************)
DatNcol == 13
DatNumeric == {9}

DatFrame(rows) == [ncol |-> DatNcol, numeric |-> DatNumeric, rows |-> rows]

TableBody(rows) == [kind |-> "table", tab |-> DatFrame(rows)]
NotFound == [kind |-> "notfound", tab |-> EmptyFrame]
Malformed == [kind |-> "malformed", tab |-> EmptyFrame]

\* What parsing a downloaded body raises.  A missing remote file is an
\* HTTPError (read_stata of the URL) or an error page that is no gzip file
\* (read_csv), both OSError; malformed content is a ParserError, a ValueError.
ParseExc(body) ==
  IF body.kind = "table" THEN "none"
  ELSE IF body.kind = "notfound" THEN "IOError"
  ELSE "ParserError"

\* The handlers of get_ilostat_raw: "except IOError".
RawCatches(exc) == exc = "IOError"

WriteFile(fs, name, body) ==
  [n \in (DOMAIN fs) \cup {name} |-> IF n = name THEN body ELSE fs[n]]

RemoveFile(fs, name) == [n \in (DOMAIN fs) \ {name} |-> fs[n]]

isfile(fs, name) == name \in DOMAIN fs

\* tfile = cache_file.replace('.' + cache_format, '.csv.gz')
tfile(cache_file, cache_format) ==
  Replace(cache_file, "." \o cache_format, ".csv.gz")

\* The modelled_estimates branch: read_stata of the URL, nothing is written,
\* and the handler removes tfile, a local that branch never assigned.
raw_modelled(body, fs) ==
  IF ParseExc(body) = "none"
  THEN [ret |-> body.tab, exc |-> "none", files |-> fs]
  ELSE IF RawCatches(ParseExc(body))
  THEN [ret |-> EmptyFrame, exc |-> "UnboundLocalError", files |-> fs]
  ELSE [ret |-> EmptyFrame, exc |-> ParseExc(body), files |-> fs]

\* The other segments: the body is streamed to tfile, then read_csv(tfile).
raw_csv(tf, cache_format, body, fs) ==
  IF ParseExc(body) = "none"
  THEN [ret |-> body.tab, exc |-> "none",
        files |-> IF cache_format # "csv.gz" THEN RemoveFile(WriteFile(fs, tf, body), tf)
                  ELSE WriteFile(fs, tf, body)]
  ELSE IF RawCatches(ParseExc(body))
  THEN [ret |-> EmptyFrame, exc |-> "none",
        files |-> RemoveFile(WriteFile(fs, tf, body), tf)]
  ELSE [ret |-> EmptyFrame, exc |-> ParseExc(body), files |-> WriteFile(fs, tf, body)]

get_ilostat_raw(id, segment, cache_file, cache_format, body, fs) ==
  IF segment = "modelled_estimates"
  THEN raw_modelled(body, fs)
  ELSE raw_csv(tfile(cache_file, cache_format), cache_format, body, fs)

(***************************************************************************)
(* The cache manager, get_ilostat_dat.                                     *)
(***************************************************************************)
\* last_toc_update[6:10] + last_toc_update[3:5] + last_toc_update[0:2]
normalized_date(d) == SubSeq(d, 7, 10) \o SubSeq(d, 4, 5) \o SubSeq(d, 1, 2)

\* tempfile.gettempdir() + '/ilostat', the default of an empty cache_dir.
cache_dir == "/tmp/ilostat"

cache_file_name(segment, id, date, cache_format) ==
  cache_dir \o "/" \o segment \o "-" \o id \o "-" \o date \o "." \o cache_format

\* get_ilostat_toc(segment, lang = 'en', search = [], filters = [id]): the
\* slot is the id, a str.
toc_lookup(rows, id) == get_ilostat_toc(rows, L(<<>>), <<S(id)>>)

cache_update_unchecked(cache, cache_update, exists) == cache_update

\* "if cache: if cache_update and os.path.isfile(cache_file): cache_update = False"
cache_update_checked(cache, cache_update, exists) ==
  IF cache /\ cache_update /\ exists THEN FALSE ELSE cache_update

\* "if not cache or cache_update or not os.path.isfile(cache_file)"
must_fetch(cache, cache_update, exists) ==
  ~cache \/ cache_update_checked(cache, cache_update, exists) \/ ~exists

\* pandas.read_csv(cache_file, ...) of a file of the cache directory.
read_cache(fs, cache_file) ==
  [ret |-> fs[cache_file].tab, exc |-> ParseExc(fs[cache_file]), files |-> fs]

\* The outcome of get_ilostat_dat on the TOC rows and the cache directory fs.
\* found: the TOC lookup returned a row; exists: cache_file was there;
\* fetched: get_ilostat_raw was called; loaded: the cache file was read.
NotFoundOutcome(exc, fs) ==
  [found |-> FALSE, cache_file |-> "", exists |-> FALSE, fetched |-> FALSE,
   loaded |-> FALSE, ret |-> EmptyFrame, exc |-> exc, files |-> fs]

\* "if filters: ..." and "return dat", after the fetch or the read (got).
dat_filtered(cache_file, exists, fetch, got, filtered) ==
  [found |-> TRUE, cache_file |-> cache_file, exists |-> exists,
   fetched |-> fetch, loaded |-> ~fetch,
   ret |-> IF got.exc = "none" /\ filtered.exc = "none" THEN filtered.tab
           ELSE EmptyFrame,
   exc |-> IF got.exc # "none" THEN got.exc ELSE filtered.exc,
   files |-> got.files]

dat_got(filters, cache_file, exists, fetch, got) ==
  dat_filtered(cache_file, exists, fetch, got,
               IF got.exc = "none" THEN ApplyFilters(got.ret, filters)
               ELSE [tab |-> EmptyFrame, exc |-> "none"])

\* "if not cache or cache_update or ...: get_ilostat_raw(...) else: read_csv(...)"
dat_fetch_or_load(id, segment, filters, cache_format, body, fs, cache_file, exists, fetch) ==
  dat_got(filters, cache_file, exists, fetch,
          IF fetch
          THEN get_ilostat_raw(id, segment, cache_file, cache_format, body, fs)
          ELSE read_cache(fs, cache_file))

dat_cache_file(id, segment, filters, cache, cache_update, cache_format, body, fs, cache_file) ==
  dat_fetch_or_load(id, segment, filters, cache_format, body, fs, cache_file,
                    isfile(fs, cache_file),
                    must_fetch(cache, cache_update, isfile(fs, cache_file)))

\* last_toc_update.unique()[0]: the last.update of the first row of the lookup.
dat_lookup(id, segment, filters, cache, cache_update, cache_format, body, fs, lookup) ==
  IF lookup.exc # "none" THEN NotFoundOutcome(lookup.exc, fs)
  ELSE IF Len(lookup.tab.rows) = 0 THEN NotFoundOutcome("none", fs)
  ELSE dat_cache_file(id, segment, filters, cache, cache_update, cache_format, body, fs,
         cache_file_name(segment, id,
                         normalized_date(lookup.tab.rows[1][LastUpdateCol]),
                         cache_format))

get_ilostat_dat(id, segment, filters, cache, cache_update, cache_format, body, rows, fs) ==
  dat_lookup(id, segment, filters, cache, cache_update, cache_format, body, fs,
             toc_lookup(rows, id))

(***************************************************************************)
(* The labeler, label_ilostat, in vector mode.  A label is a string or a   *)
(* missing value (NaN).                                                    *)
(***************************************************************************)
NaN == [isna |-> TRUE, v |-> ""]
Str(v) == [isna |-> FALSE, v |-> v]

\* get_ilostat_dic(dic, lang): the code and label columns of the dictionary.
dic_df == << <<"A", Str("Alpha")>>, <<"B", Str("Beta")>> >>

\* pandas.merge(left, right, how='left', on=[dic]).iloc[:, 1]: for each key of
\* left in order, the label of every row of right with that key, NaN if none.
MatchesOf(key, right) ==
  SelectRows(right, {i \in 1..Len(right) : right[i][1] = key})

RECURSIVE merge_left(_, _)
merge_left(left, right) ==
  IF Len(left) = 0 THEN <<>>
  ELSE (IF Len(MatchesOf(Head(left), right)) = 0 THEN <<NaN>>
        ELSE [k \in 1..Len(MatchesOf(Head(left), right)) |->
                MatchesOf(Head(left), right)[k][2]])
       \o merge_left(Tail(left), right)

keep_all(x) == x

\* x.drop_duplicates(keep = 'first')
drop_duplicates(x) ==
  SelectRows(x, {i \in 1..Len(x) : \A j \in 1..(i - 1) : x[j] # x[i]})

\* ' | '.join(list(test.iloc[:,1])) of the labels of one composite code; a
\* missing label makes str.join raise TypeError.
composite_label(labels) ==
  IF \E k \in 1..Len(labels) : labels[k].isna
  THEN [exc |-> "TypeError", label |-> NaN]
  ELSE [exc |-> "none",
        label |-> Str(Join(" | ", [k \in 1..Len(labels) |-> labels[k].v]))]

\* The loop over the distinct composite codes z; then the merge of x with z.
z_label(code) == composite_label(merge_left(Split(code, "_"), dic_df))

note_merge(x, z) ==
  IF \E i \in 1..Len(z) : z_label(z[i]).exc # "none"
  THEN [frame |-> FALSE, y |-> <<>>, exc |-> "TypeError"]
  ELSE [frame |-> FALSE, exc |-> "none",
        y |-> merge_left(x, [i \in 1..Len(z) |-> <<z[i], z_label(z[i]).label>>])]

label_ilostat(x, dic) ==
  IF Len(dic) = 0 THEN [frame |-> TRUE, y |-> <<>>, exc |-> "none"]
  ELSE IF ~Contains(dic, "note_")
  THEN [frame |-> FALSE, y |-> merge_left(x, dic_df), exc |-> "none"]
  ELSE note_merge(x, drop_duplicates(x))

(***************************************************************************)
(* The state: the remote TOC of the requested segment (toc), the cache     *)
(* directory (files), and the outcome of the call that has just returned:  *)
(* of get_ilostat_dat (last), of get_ilostat_toc (tocOut), of              *)
(* label_ilostat (lab).                                                    *)
(***************************************************************************)
Idle == [op |-> "none"]

NoFiles == [n \in {} |-> NotFound]

Dates == {"01.01.2020", "02.01.2020"}

Segments == {"indicator", "modelled_estimates"}

Formats == {"csv.gz", "csv"}

TocRow(id, indicator, subject_label, date) ==
  <<id, indicator, "", "", "", "", "", "", date, 0, "", "", "", subject_label>>

DataRow(collection, ref_area) ==
  <<collection, ref_area, "", "", "", "", "", "2017", 1, "", "", "", "">>

\* The sequences of 1..n distinct elements of a set of rows with distinct ids.
DistinctSeqs(rowSet, n) ==
  UNION {{t \in [1..k -> rowSet] :
            \A i, j \in 1..k : i # j => t[i][IdCol] # t[j][IdCol]} : k \in 1..n}

\* The row of the TOC whose id is id, if any.
RowsOfId(rows, id) == {i \in 1..Len(rows) : rows[i][IdCol] = id}

OwnDate(rows, id) ==
  normalized_date(rows[CHOOSE i \in RowsOfId(rows, id) : TRUE][LastUpdateCol])

NormDates == {normalized_date(d) : d \in Dates}

\* A call of get_ilostat_dat, its arguments and the remote's answer drawn
\* from the given sets.
DatCall(ids, segments, filterSet, caches, updates, formats, bodies) ==
  \E id \in ids, segment \in segments, filters \in filterSet,
     cache \in caches, cache_update \in updates, cache_format \in formats,
     body \in bodies :
    \E r \in {get_ilostat_dat(id, segment, filters, cache, cache_update,
                              cache_format, body, toc, files)},
       inToc \in {RowsOfId(toc, id) # {}} :
        /\ last' = [op |-> "dat", id |-> id, segment |-> segment,
                    filters |-> filters, cache |-> cache,
                    cache_update |-> cache_update,
                    cache_format |-> cache_format, body |-> body,
                    inToc |-> inToc,
                    ownBefore |-> inToc /\ isfile(files,
                       cache_file_name(segment, id, OwnDate(toc, id), cache_format)),
                    staleBefore |-> inToc /\ \E d \in NormDates \ {OwnDate(toc, id)} :
                       isfile(files, cache_file_name(segment, id, d, cache_format)),
                    found |-> r.found, cache_file |-> r.cache_file,
                    exists |-> r.exists, fetched |-> r.fetched,
                    loaded |-> r.loaded, wrote |-> r.files # files,
                    ret |-> r.ret, exc |-> r.exc]
        /\ files' = r.files
        /\ tocOut' = Idle
        /\ UNCHANGED <<toc, lab>>

(***************************************************************************)
(* Spec: the cache manager on the indicator segment, against a remote      *)
(* whose TOC changes.                                                      *)
(***************************************************************************)
CacheTocIds == {"A", "AB"}

CacheReqIds == {"A", "AB", "C"}

CacheRows == {TocRow(id, "", "", d) : id \in CacheTocIds, d \in Dates}

DataTable == TableBody(<<DataRow("A", "B"), DataRow("B", "A")>>)

Init ==
  /\ toc \in DistinctSeqs(CacheRows, MaxRows)
  /\ files = NoFiles
  /\ last = Idle
  /\ tocOut = Idle
  /\ lab = Idle

GetIlostatDat ==
  DatCall(CacheReqIds, {"indicator"}, {<<>>}, BOOLEAN, BOOLEAN, Formats,
          {DataTable, NotFound})

\* The remote publishes a new last.update for one dataset.
TocPublish ==
  \E i \in 1..Len(toc), d \in Dates :
    /\ d # toc[i][LastUpdateCol]
    /\ toc' = [toc EXCEPT ![i][LastUpdateCol] = d]
    /\ last' = Idle
    /\ UNCHANGED <<files, tocOut, lab>>

Next == GetIlostatDat \/ TocPublish

Spec == Init /\ [][Next]_vars

(***************************************************************************)
(* SpecRaw: one dataset, every segment, cache format and remote answer.    *)
(***************************************************************************)
InitRaw ==
  /\ toc \in {<<TocRow("A", "", "", d)>> : d \in Dates}
  /\ files = NoFiles
  /\ last = Idle
  /\ tocOut = Idle
  /\ lab = Idle

GetIlostatDatRaw ==
  DatCall({"A"}, Segments, {<<>>}, BOOLEAN, BOOLEAN, Formats,
          {DataTable, NotFound, Malformed})

NextRaw == GetIlostatDatRaw \/ TocPublish

SpecRaw == InitRaw /\ [][NextRaw]_vars

(***************************************************************************)
(* SpecQuery: searches and filters on a TOC, filters on a dataset.         *)
(***************************************************************************)
QueryRows ==
  {TocRow("A", "A", "B", "01.01.2020"), TocRow("AB", "A and B", "", "01.01.2020"),
   TocRow("B", "B", "", "01.01.2020"), TocRow("BA", "B", "A", "01.01.2020")}

Searches == {L(<<>>), S("A"), L(<<"B">>), L(<<"A", "B">>)}

SlotSet ==
  {L(<<>>), L(<<"A">>), L(<<"A", "B">>), L(<<".">>), S("A"), S("AB")}

FilterLists(n) == UNION {[1..k -> SlotSet] : k \in 0..n}

\* n slots, all empty but the first and the last.
PadFilter(n, first, final) ==
  [k \in 1..n |-> IF k = 1 THEN first ELSE IF k = n THEN final ELSE L(<<>>)]

TocFilters ==
  FilterLists(MaxFilterLen)
    \cup {PadFilter(10, L(<<"A">>), L(<<"1">>)), PadFilter(15, L(<<"A">>), L(<<"A">>))}

DatFilters ==
  FilterLists(MaxFilterLen)
    \cup {PadFilter(9, L(<<"A">>), L(<<"1">>)), PadFilter(14, L(<<"A">>), L(<<"A">>))}

QueryBodies ==
  {TableBody(<<DataRow("A", "B"), DataRow("B", "A"), DataRow("AB", "AB")>>)}

InitQuery ==
  /\ toc \in DistinctSeqs(QueryRows, MaxRows)
  /\ files = NoFiles
  /\ last = Idle
  /\ tocOut = Idle
  /\ lab = Idle

GetIlostatToc ==
  \E search \in Searches, filters \in TocFilters :
    \E r \in {get_ilostat_toc(toc, search, filters)} :
      /\ tocOut' = [op |-> "toc", search |-> search, filters |-> filters,
                    ret |-> IF r.exc = "none" THEN r.tab ELSE EmptyFrame,
                    exc |-> r.exc]
      /\ last' = Idle
      /\ UNCHANGED <<toc, files, lab>>

GetIlostatDatFiltered ==
  DatCall({"A"}, {"indicator"}, DatFilters, {FALSE}, {FALSE}, {"csv"}, QueryBodies)

NextQuery == GetIlostatToc \/ GetIlostatDatFiltered

SpecQuery == InitQuery /\ [][NextQuery]_vars

(***************************************************************************)
(* SpecLabel: label_ilostat on vectors of composite codes.                 *)
(***************************************************************************)
Composites == {"A", "A_B", "B_A", "A_C"}

Dics == {"", "sex", "note_source"}

Vectors == UNION {[1..n -> Composites] : n \in 0..MaxVecLen}

LabelIlostat ==
  \E x \in Vectors, dic \in Dics :
    \E r \in {label_ilostat(x, dic)} :
      /\ lab' = [op |-> "label", x |-> x, dic |-> dic, frame |-> r.frame,
                 y |-> r.y, exc |-> r.exc]
      /\ UNCHANGED <<toc, files, last, tocOut>>

InitLabel ==
  /\ toc = <<TocRow("A", "", "", "01.01.2020")>>
  /\ files = NoFiles
  /\ last = Idle
  /\ tocOut = Idle
  /\ lab = Idle

NextLabel == LabelIlostat

SpecLabel == InitLabel /\ [][NextLabel]_vars

(***************************************************************************)
(* The claims.                                                             *)
(***************************************************************************)
Called == last.op = "dat"

\* C1 (as amended): for an id that has a TOC row, get_ilostat_dat performs a
\* raw fetch exactly when caching is disabled or the expected cache file is
\* absent; otherwise, whatever cache_update is, it loads the cache file and
\* performs no raw fetch.
C1_FetchIffNoCacheOrAbsent ==
  (Called /\ last.inToc) =>
     /\ last.fetched <=> (~last.cache \/ ~last.exists)
     /\ last.loaded <=> ~last.fetched

\* C1, witness: an update was requested, the expected file was there, and the
\* call loaded it without fetching.
C1_Witness ==
  /\ Called /\ last.inToc
  /\ last.cache /\ last.cache_update /\ last.exists
  /\ ~last.fetched /\ last.loaded

\* C1 as stated: a raw fetch is performed if cache=False, or cache_update=True,
\* or the expected cache file is absent, and in every other case the file is
\* loaded.
C1_Original ==
  (Called /\ last.inToc) =>
     /\ last.fetched <=> (~last.cache \/ last.cache_update \/ ~last.exists)
     /\ last.loaded <=> ~last.fetched

\* C2 as stated: with cache=True and cache_update=True, when the cache
\* directory held the file named with the last.update of the TOC row of that
\* id (as YYYYMMDD), the call fetches nothing and returns that file's table.
C2_FreshCacheIsUsed ==
  (Called /\ last.cache /\ last.cache_update /\ last.ownBefore) =>
     /\ ~last.fetched /\ last.loaded /\ last.exc = "none"
     /\ last.ret = files[cache_file_name(last.segment, last.id,
                            OwnDate(toc, last.id), last.cache_format)].tab

\* C3 as stated: when only cache files of other dates than the TOC's
\* last.update of that id existed, a call with caching enabled refetches, and
\* after a fetch that succeeded no file of another date is left for that id
\* and the file of the new date is there.
C3_StaleCacheIsReplaced ==
  (Called /\ last.cache /\ last.staleBefore /\ ~last.ownBefore) =>
     /\ last.fetched
     /\ (last.exc = "none" /\ last.body.kind = "table") =>
           /\ \A d \in NormDates \ {OwnDate(toc, last.id)} :
                ~isfile(files, cache_file_name(last.segment, last.id, d,
                                               last.cache_format))
           /\ isfile(files, cache_file_name(last.segment, last.id,
                                OwnDate(toc, last.id), last.cache_format))

\* C4 as stated: for an id that is the id of no TOC row, the call returns an
\* empty table, raises nothing, fetches nothing and creates no file.
C4_MissingIdIsEmpty ==
  (Called /\ ~last.inToc) =>
     /\ last.ret = EmptyFrame /\ last.exc = "none"
     /\ ~last.fetched /\ ~last.wrote

\* C9 as stated: when the downloaded file cannot be parsed, the raw fetch
\* raises nothing, returns an empty table and leaves no temporary file.
C9_RawFailureIsNotFatal ==
  (Called /\ last.fetched /\ last.body.kind # "table") =>
     /\ last.exc = "none" /\ last.ret = EmptyFrame
     /\ ~isfile(files, tfile(last.cache_file, last.cache_format))

\* What the claims call the strings of a slot or of a search: the items of a
\* list, the one string of a str.
SlotStrings(slot) == IF slot.kind = "str" THEN <<slot.val>> ELSE slot.val

\* Every slot is a list of strings.
AllLists(filters) == \A k \in 1..Len(filters) : filters[k].kind = "list"

\* A row passes the stated filter semantics: for every non-empty slot among
\* the first min(ncol, Len(filters)), its cell contains one of the strings.
PassesStated(row, filters, ncol) ==
  \A k \in 1..Min(ncol, Len(filters)) :
     Truthy(filters[k]) =>
        \E n \in 1..Len(SlotStrings(filters[k])) :
           Contains(row[k], SlotStrings(filters[k])[n])

StatedFilter(rows, filters, ncol) ==
  SelectRows(rows, {i \in 1..Len(rows) : PassesStated(rows[i], filters, ncol)})

TocCalled == tocOut.op = "toc"

DatFiltered == Called /\ last.found /\ last.fetched /\ last.body.kind = "table"

\* C5 as stated: with slots that are lists of strings, a call that returns
\* keeps exactly the rows that, for every non-empty slot among the first
\* min(columns, len(filters)), contain one of the slot's strings as a
\* substring in the column of that position, in their original order.
C5_FilterSemantics ==
  /\ (/\ TocCalled /\ ~Truthy(tocOut.search) /\ tocOut.exc = "none"
      /\ AllLists(tocOut.filters)) =>
        tocOut.ret.rows = StatedFilter(toc, tocOut.filters, TocNcol)
  /\ (DatFiltered /\ last.exc = "none" /\ AllLists(last.filters)) =>
        last.ret.rows = StatedFilter(last.body.tab.rows, last.filters, DatNcol)

\* C6 as stated: get_ilostat_toc with filters = [v], v a str, returns exactly
\* the TOC rows whose id contains v as a contiguous substring.
C6_LookupBySubstring ==
  (/\ TocCalled /\ ~Truthy(tocOut.search)
   /\ Len(tocOut.filters) = 1 /\ tocOut.filters[1].kind = "str") =>
     /\ tocOut.exc = "none"
     /\ tocOut.ret.rows =
          SelectRows(toc, {i \in 1..Len(toc) :
                             Contains(toc[i][IdCol], tocOut.filters[1].val)})

\* C7 as stated: with search a list, a row is returned exactly when every
\* string of the list occurs in the concatenation of its eight label columns;
\* with search a str, exactly when that string occurs in it.
C7_SearchIsConjunctive ==
  (TocCalled /\ Truthy(tocOut.search) /\ Len(tocOut.filters) = 0) =>
     /\ tocOut.exc = "none"
     /\ tocOut.ret.rows =
          SelectRows(toc, {i \in 1..Len(toc) :
             \A n \in 1..Len(SlotStrings(tocOut.search)) :
                Contains(titles(toc[i]), SlotStrings(tocOut.search)[n])})

\* The first non-empty slot among the applied ones that sits on a column of a
\* numeric dtype (0 if none): applying it raises.
RaisingSlot(filters, ncol, numeric) ==
  LET hit == {k \in 1..Min(ncol, Len(filters)) : Truthy(filters[k]) /\ k \in numeric}
  IN  IF hit = {} THEN 0 ELSE CHOOSE k \in hit : \A j \in hit : k <= j

\* C10 as stated: when applying slot k raises, the call raises nothing and
\* returns the table filtered by the slots before k.
C10_FilterFailsOpen ==
  /\ (/\ TocCalled /\ ~Truthy(tocOut.search)
      /\ RaisingSlot(tocOut.filters, TocNcol, TocNumeric) > 0) =>
        /\ tocOut.exc = "none"
        /\ tocOut.ret.rows =
             StatedFilter(toc, SubSeq(tocOut.filters, 1,
                RaisingSlot(tocOut.filters, TocNcol, TocNumeric) - 1), TocNcol)
  /\ (DatFiltered /\ RaisingSlot(last.filters, DatNcol, DatNumeric) > 0) =>
        /\ last.exc = "none"
        /\ last.ret.rows =
             StatedFilter(last.body.tab.rows, SubSeq(last.filters, 1,
                RaisingSlot(last.filters, DatNcol, DatNumeric) - 1), DatNcol)

\* The label of an elementary code of the dictionary.
LabelOf(code) == (CHOOSE i \in 1..Len(dic_df) : dic_df[i][1] = code)

InDictionary(code) == \E i \in 1..Len(dic_df) : dic_df[i][1] = code

AllInDictionary(x) ==
  \A i \in 1..Len(x) :
     \A k \in 1..Len(Split(x[i], "_")) : InDictionary(Split(x[i], "_")[k])

StatedNoteLabel(composite) ==
  Str(Join(" | ", [k \in 1..Len(Split(composite, "_")) |->
                     dic_df[LabelOf(Split(composite, "_")[k])][2].v]))

NoteLabelled == lab.op = "label" /\ Contains(lab.dic, "note_")

\* C8: for a note dictionary and composite codes whose elementary codes are
\* all in the dictionary, the output has the length and order of the input
\* and position i holds the labels of the elementary codes of input i, in
\* their order, joined by " | ".
C8_NoteLabels ==
  (NoteLabelled /\ AllInDictionary(lab.x)) =>
     /\ lab.exc = "none" /\ ~lab.frame
     /\ Len(lab.y) = Len(lab.x)
     /\ \A i \in 1..Len(lab.x) : lab.y[i] = StatedNoteLabel(lab.x[i])

\* C8, witness: a vector with a repeated composite code was labelled, and
\* "A_B" came out as "Alpha | Beta".
C8_Witness ==
  /\ NoteLabelled /\ AllInDictionary(lab.x)
  /\ lab.x = <<"A_B", "A", "A_B">>
  /\ lab.y = <<Str("Alpha | Beta"), Str("Alpha"), Str("Alpha | Beta")>>

\* The step is a call of get_ilostat_dat that follows, with the same arguments
\* and an unchanged TOC, a call with caching enabled that fetched the dataset
\* successfully.
RepeatsFetch ==
  /\ Called /\ last.cache /\ last.found /\ last.fetched
  /\ last.exc = "none" /\ last.body.kind = "table"
  /\ last'.op = "dat" /\ toc' = toc
  /\ last'.id = last.id /\ last'.segment = last.segment
  /\ last'.filters = last.filters /\ last'.cache = last.cache
  /\ last'.cache_update = last.cache_update
  /\ last'.cache_format = last.cache_format

\* C11 as stated: for every segment and cache_format, after a call of
\* get_ilostat_dat with cache=True that successfully fetched the dataset, the
\* expected cache file exists, and a following call with the same arguments
\* and an unchanged TOC last.update loads the table from the cache and
\* performs no raw fetch.
C11_CacheIsReused ==
  [][RepeatsFetch =>
       /\ isfile(files, last.cache_file)
       /\ last'.loaded /\ ~last'.fetched]_vars

====
